---- MODULE Spec2Model ----
(***************************************************************************)
(* State-machine model of the WHIR proof staging program                   *)
(* (programs/whir-verifier-solana), the shared configuration crate         *)
(* (config) and the native prover library (native-prover).                 *)
(*                                                                         *)
(* The field Field64_2 (two 8-byte limbs over a 64-bit prime) is scaled    *)
(* to two 1-byte limbs over the prime P, so a field element is encoded in  *)
(* field_size_bytes = 2 bytes and a limb byte >= P is a non-canonical      *)
(* encoding.  The WHIR commit/prove/verify capability and the spongefish   *)
(* transcript live outside the listed sources; they are modelled as an     *)
(* ideal commitment scheme (see "Black-box capability" below).             *)
(***************************************************************************)
EXTENDS Integers, Sequences, FiniteSets, TLC

\* accounts: the ProofData account in each slot; artifact: what the producer
\* made; last: the outcome of the latest call.  staged and verified are
\* history the program does not store: the chunks a slot accepted, in order of
\* arrival, and whether a verify of the slot's record has succeeded (the flag a
\* caching implementation would keep).
VARIABLES accounts, staged, verified, artifact, last

vars == <<accounts, staged, verified, artifact, last>>

(***************************************************************************)
(* Bounds of the model.                                                    *)
(***************************************************************************)
\* number of variables of the producer's base configuration
BaseNumVariables == 2
\* capacity, in transcript units, of a staging account's proof buffer
MaxProofLen == 5
\* largest chunk a single upload_chunk call carries
MaxChunkLen == 2
\* largest byte value offered in evaluation-point / value inputs
MaxByte == 3

(***************************************************************************)
(* Field element codec (ark-serialize compressed form of F).               *)
(***************************************************************************)
\* modulus of the (scaled) base prime field of F
P == 3
\* quadratic non-residue defining the extension F = Fp[x]/(x^2 - NONRESIDUE)
NONRESIDUE == 2

field_size_bytes == 2

FElem(a, b) == [c0 |-> a % P, c1 |-> b % P]

F_from(n) == FElem(n, 0)

F_add(x, y) == FElem(x.c0 + y.c0, x.c1 + y.c1)

F_mul(x, y) ==
    FElem(x.c0 * y.c0 + NONRESIDUE * x.c1 * y.c1, x.c0 * y.c1 + x.c1 * y.c0)

FieldElements == {FElem(a, b) : a \in 0..(P - 1), b \in 0..(P - 1)}

\* p.serialize_compressed(&mut bytes): limb c0 then limb c1
serialize_compressed(x) == <<x.c0, x.c1>>

DeserErr == [ok |-> FALSE, val |-> FElem(0, 0)]

\* F::deserialize_compressed(reader): reads field_size_bytes bytes from the
\* reader (fails when fewer are available), rejects a limb that is not a
\* canonical representative, and does not look at what follows in the reader.
deserialize_compressed(bytes) ==
    IF Len(bytes) < field_size_bytes THEN DeserErr
    ELSE IF bytes[1] >= P \/ bytes[2] >= P THEN DeserErr
    ELSE [ok |-> TRUE, val |-> FElem(bytes[1], bytes[2])]

\* bytes.chunks_exact(field_size): the full-width chunks, left to right; a
\* remainder shorter than field_size is dropped
chunks_exact(bytes, size) ==
    [i \in 1..(Len(bytes) \div size) |->
        SubSeq(bytes, (i - 1) * size + 1, i * size)]

\* deserialize_eval_point(bytes)
deserialize_eval_point(bytes) ==
    LET chunks == chunks_exact(bytes, field_size_bytes)
        values == [i \in 1..Len(chunks) |-> deserialize_compressed(chunks[i])]
    IN  IF \E i \in 1..Len(chunks) : ~values[i].ok
        THEN [ok |-> FALSE, val |-> <<>>]
        ELSE [ok |-> TRUE, val |-> [i \in 1..Len(chunks) |-> values[i].val]]

RECURSIVE Flatten(_)
Flatten(ss) == IF ss = <<>> THEN <<>> ELSE Head(ss) \o Flatten(Tail(ss))

\* the serialization loop starting after the first coordinate
serialize_eval_point_skip_first(point) ==
    Flatten([i \in 1..(Len(point) - 1) |-> serialize_compressed(point[i + 1])])

\* for p in eval_point.0.iter() { p.serialize_compressed(&mut eval_point_bytes) }
serialize_eval_point(point) ==
    Flatten([i \in 1..Len(point) |-> serialize_compressed(point[i])])

(***************************************************************************)
(* Configuration (config crate and ProofConfig of the prover).             *)
(***************************************************************************)
SECURITY_LEVEL_BITS == 100
STARTING_LOG_INV_RATE == 1
FOLDING_FACTOR == 4
DOMAIN_SEPARATOR == "whir-solana"

\* ProofConfig { num_variables, security_level, pow_bits,
\*               starting_log_inv_rate, folding_factor }
ProofConfig(nv, sec, pow, rate, ff) ==
    [num_variables |-> nv, security_level |-> sec, pow_bits |-> pow,
     starting_log_inv_rate |-> rate, folding_factor |-> ff]

\* the configuration of test_proof_generation_and_verification, with the
\* number of variables scaled to BaseNumVariables
TestConfig == ProofConfig(BaseNumVariables, 32, 5, 1, 2)

\* a configuration the producer accepts (its fields are usize) whose security
\* level is outside u8 and equals the test configuration's modulo 256
WideConfig == [TestConfig EXCEPT !.security_level = 256 + 32]

\* the producer's configurations: the test configuration and the ones that
\* differ from it in exactly one field
ConfigInputs ==
    {TestConfig,
     [TestConfig EXCEPT !.num_variables = BaseNumVariables - 1],
     [TestConfig EXCEPT !.security_level = SECURITY_LEVEL_BITS],
     [TestConfig EXCEPT !.pow_bits = TestConfig.pow_bits + 1],
     [TestConfig EXCEPT !.starting_log_inv_rate = STARTING_LOG_INV_RATE + 1],
     [TestConfig EXCEPT !.folding_factor = FOLDING_FACTOR],
     WideConfig}

\* ark_std::test_rng(): a generator with a fixed, public seed
test_rng == "test_rng"

\* default_config(&mut rng): the Merkle leaf and two-to-one hash parameters
default_config(rng) == [leaf_hash_params |-> rng, two_to_one_params |-> rng]

\* create_whir_params narrowing the security level to 8 bits (`as u8`)
create_whir_params_narrow(num_variables, security_level, pow_bits, folding_factor, starting_log_inv_rate) ==
    [mv_params |-> num_variables,
     initial_statement |-> TRUE,
     security_level |-> security_level % 256,
     pow_bits |-> pow_bits,
     folding_factor |-> <<folding_factor, folding_factor>>,
     hash_params |-> default_config(test_rng),
     starting_log_inv_rate |-> starting_log_inv_rate,
     batch_size |-> 1]

\* create_whir_params taking pow_bits from the test configuration instead of
\* its argument
create_whir_params_fixed_pow(num_variables, security_level, pow_bits, folding_factor, starting_log_inv_rate) ==
    [mv_params |-> num_variables,
     initial_statement |-> TRUE,
     security_level |-> security_level,
     pow_bits |-> 5,
     folding_factor |-> <<folding_factor, folding_factor>>,
     hash_params |-> default_config(test_rng),
     starting_log_inv_rate |-> starting_log_inv_rate,
     batch_size |-> 1]

\* whir_config::create_whir_params: the WhirConfig built from the five values
create_whir_params(num_variables, security_level, pow_bits, folding_factor, starting_log_inv_rate) ==
    [mv_params |-> num_variables,
     initial_statement |-> TRUE,
     security_level |-> security_level,
     pow_bits |-> pow_bits,
     folding_factor |-> <<folding_factor, folding_factor>>,
     hash_params |-> default_config(test_rng),
     starting_log_inv_rate |-> starting_log_inv_rate,
     batch_size |-> 1]

\* a plausible slip: folding factor and starting rate passed in struct order
prover_create_whir_params_swapped(config) ==
    create_whir_params(config.num_variables, config.security_level,
                       config.pow_bits, config.starting_log_inv_rate,
                       config.folding_factor)

\* native-prover create_whir_params(config)
prover_create_whir_params(config) ==
    create_whir_params(config.num_variables, config.security_level,
                       config.pow_bits, config.folding_factor,
                       config.starting_log_inv_rate)

(***************************************************************************)
(* Polynomials and evaluation points.                                      *)
(***************************************************************************)
RECURSIVE Pow(_, _)
Pow(b, e) == IF e = 0 THEN 1 ELSE b * Pow(b, e - 1)

\* create_test_polynomial(num_variables): coefficients 0, 1, 2, ... in the
\* base prime field
create_test_polynomial(num_variables) ==
    [i \in 1..Pow(2, num_variables) |-> (i - 1) % P]

\* the point of the test and of main: coordinate i is F::from(i + 1)
TestPoint(num_variables) == [i \in 1..num_variables |-> F_from(i)]

\* a second point, with a coordinate outside the base field
OtherPoint(num_variables) == [i \in 1..num_variables |-> FElem(i + 1, 1)]

PointInputs(num_variables) ==
    {TestPoint(num_variables), OtherPoint(num_variables)}

\* polynomial.evaluate_at_extension(point) for a coefficient list: the first
\* coordinate multiplies the upper half of the coefficients
RECURSIVE evaluate_at_extension(_, _)
evaluate_at_extension(coeffs, point) ==
    IF point = <<>> THEN F_from(coeffs[1])
    ELSE LET half == Len(coeffs) \div 2
             lo == SubSeq(coeffs, 1, half)
             hi == SubSeq(coeffs, half + 1, Len(coeffs))
         IN  F_add(evaluate_at_extension(lo, Tail(point)),
                   F_mul(Head(point), evaluate_at_extension(hi, Tail(point))))

(***************************************************************************)
(* Black-box capability: spongefish transcript and WHIR commit / prove /   *)
(* parse / verify, as an ideal polynomial commitment scheme.               *)
(*                                                                         *)
(* A transcript (NARG string) is a sequence of units:                      *)
(*    <<Merkle root>> \o <<one unit per domain-separator transform>>       *)
(*                    \o <<unit binding the evaluation statement>>         *)
(* The root is a binding commitment to the coefficient list.  The units of *)
(* the proof body are what an honest prover answers to the challenges the  *)
(* sponge derives from the domain separator, so they are injective in the  *)
(* separator's transforms and their order, and in the statement.  The      *)
(* verifier reads the transcript left to right and consumes only what it   *)
(* needs.                                                                  *)
(***************************************************************************)
\* radix of the injective packing of configuration values into a unit
HashBase == 512

DomainSeparator_new(label) == <<label>>

\* "bind statement/commitment shape"
commit_statement(domainsep, params) ==
    Append(domainsep, <<"commit_statement", params>>)

\* "bind proof shape"
add_whir_proof(domainsep, params) ==
    Append(domainsep, <<"whir_proof", params>>)

\* the unit a transform of the domain separator contributes to the challenges
TransformUnit(op) ==
    LET params == op[2]
    IN  IF op[1] = "commit_statement"
        THEN 2 * (params.mv_params
                  + HashBase * (params.starting_log_inv_rate
                                + HashBase * params.folding_factor[1]))
        ELSE 1 + 2 * (params.security_level
                      + HashBase * (params.pow_bits
                                    + HashBase * params.folding_factor[2]))

ChallengeUnits(domainsep) ==
    [i \in 1..(Len(domainsep) - 1) |-> TransformUnit(domainsep[i + 1])]

\* Merkle root: binding commitment to the coefficient list
MerkleRoot(coeffs) ==
    LET RECURSIVE Sum(_)
        Sum(i) == IF i > Len(coeffs) THEN 0
                  ELSE coeffs[i] * Pow(P, i - 1) + Sum(i + 1)
    IN  Sum(1)

\* the coefficient list a root commits to, for a given number of variables
Decommit(root, num_variables) ==
    [i \in 1..Pow(2, num_variables) |-> (root \div Pow(P, i - 1)) % P]

ElemCode(x) == x.c0 + P * x.c1

\* Statement::new(num_variables)
Statement_new(num_variables) ==
    [num_variables |-> num_variables, constraints |-> <<>>]

\* statement.add_constraint(Weights::evaluation(point), value)
add_constraint(statement, point, value) ==
    [statement EXCEPT
        !.constraints = Append(@, [point |-> point, value |-> value])]

\* the unit binding the evaluation constraint of a statement
StatementUnit(statement) ==
    LET c == statement.constraints[1]
        RECURSIVE Code(_)
        Code(i) == IF i > Len(c.point) THEN 1
                   ELSE ElemCode(c.point[i]) + P * P * Code(i + 1)
    IN  ElemCode(c.value) + P * P * Code(1)

\* domainsep.to_prover_state()
to_prover_state(domainsep) == [domainsep |-> domainsep, narg |-> <<>>]

\* committer.commit(&mut prover_state, polynomial): writes the root
commit(params, prover_state, polynomial) ==
    [state |-> [prover_state EXCEPT
                   !.narg = Append(@, MerkleRoot(polynomial))],
     witness |-> polynomial]

\* prover.prove(&mut prover_state, statement, witness): writes the proof body
prove(params, prover_state, statement, witness) ==
    [prover_state EXCEPT
        !.narg = @ \o ChallengeUnits(prover_state.domainsep)
                   \o <<StatementUnit(statement)>>]

\* the commit step can run: the polynomial has the declared number of variables
commit_accepts(params, polynomial) ==
    Len(polynomial) = Pow(2, params.mv_params)

\* the prove step can run: the statement has the declared number of variables
\* and its constraint is over a point with that many coordinates
prove_accepts(params, statement) ==
    /\ statement.num_variables = params.mv_params
    /\ \A i \in 1..Len(statement.constraints) :
           Len(statement.constraints[i].point) = statement.num_variables

\* domainsep.to_verifier_state(proof_bytes)
to_verifier_state(domainsep, proof_bytes) ==
    [domainsep |-> domainsep, narg |-> proof_bytes]

\* commitment_reader.parse_commitment(&mut verifier_state): reads the root;
\* fails when the transcript is exhausted or the unit is no commitment of a
\* polynomial in params.mv_params variables
parse_commitment(params, verifier_state) ==
    IF \/ verifier_state.narg = <<>>
       \/ Head(verifier_state.narg) >= Pow(P, Pow(2, params.mv_params))
    THEN [ok |-> FALSE, root |-> 0, state |-> verifier_state]
    ELSE [ok |-> TRUE, root |-> Head(verifier_state.narg),
          state |-> [verifier_state EXCEPT !.narg = Tail(@)]]

\* verifier.verify(&mut verifier_state, &parsed_commitment, &statement):
\* accepts iff the proof body answers the challenges of this domain separator
\* for this statement and the committed polynomial satisfies the statement.
\* A constraint whose point has another number of coordinates than the
\* statement has variables is treated as a rejected statement.
verifier_verify(params, verifier_state, parsed_commitment, statement) ==
    LET need == ChallengeUnits(verifier_state.domainsep)
                    \o <<StatementUnit(statement)>>
        c == statement.constraints[1]
    IN  /\ Len(c.point) = statement.num_variables
        /\ statement.num_variables = params.mv_params
        /\ Len(verifier_state.narg) >= Len(need)
        /\ SubSeq(verifier_state.narg, 1, Len(need)) = need
        /\ evaluate_at_extension(
               Decommit(parsed_commitment.root, params.mv_params), c.point)
             = c.value

(***************************************************************************)
(* Proof producer and local verifier (native-prover).                      *)
(***************************************************************************)
\* the domain separator generate_pcs_proof derives
generate_domainsep(config) ==
    add_whir_proof(
        commit_statement(DomainSeparator_new(DOMAIN_SEPARATOR),
                         prover_create_whir_params(config)),
        prover_create_whir_params(config))

\* the domain separator verify_proof derives
verify_proof_domainsep(config) ==
    add_whir_proof(
        commit_statement(DomainSeparator_new(DOMAIN_SEPARATOR),
                         prover_create_whir_params(config)),
        prover_create_whir_params(config))

\* the two transforms applied in the other order
verify_domainsep_swapped(num_variables, security_level, pow_bits, folding_factor, starting_log_inv_rate) ==
    commit_statement(
        add_whir_proof(DomainSeparator_new(DOMAIN_SEPARATOR),
                       create_whir_params(num_variables, security_level,
                                          pow_bits, folding_factor,
                                          starting_log_inv_rate)),
        create_whir_params(num_variables, security_level, pow_bits,
                           folding_factor, starting_log_inv_rate))

\* the domain separator the verify instruction derives
verify_domainsep(num_variables, security_level, pow_bits, folding_factor, starting_log_inv_rate) ==
    add_whir_proof(
        commit_statement(DomainSeparator_new(DOMAIN_SEPARATOR),
                         create_whir_params(num_variables, security_level,
                                            pow_bits, folding_factor,
                                            starting_log_inv_rate)),
        create_whir_params(num_variables, security_level, pow_bits,
                           folding_factor, starting_log_inv_rate))

NoProof ==
    [proof_bytes |-> <<>>, eval_point |-> <<>>, eval_value |-> <<>>,
     num_variables |-> 0]

\* generate_pcs_proof(config, polynomial, eval_point) -> Result<WhirProof>:
\* no artifact is returned when the commit or the prove step does not run
generate_pcs_proof(config, polynomial, eval_point) ==
    LET params == prover_create_whir_params(config)
        domainsep == generate_domainsep(config)
        committed == commit(params, to_prover_state(domainsep), polynomial)
        expected_value == evaluate_at_extension(polynomial, eval_point)
        statement == add_constraint(Statement_new(config.num_variables),
                                    eval_point, expected_value)
        prover_state == prove(params, committed.state, statement,
                              committed.witness)
    IN  IF ~commit_accepts(params, polynomial)
        THEN [ok |-> FALSE, proof |-> NoProof]
        ELSE IF ~prove_accepts(params, statement)
        THEN [ok |-> FALSE, proof |-> NoProof]
        ELSE [ok |-> TRUE,
              proof |-> [proof_bytes |-> prover_state.narg,
                         eval_point |-> serialize_eval_point(eval_point),
                         eval_value |-> serialize_compressed(expected_value),
                         num_variables |-> config.num_variables]]

\* verify_proof(config, proof, eval_point, eval_value) -> Ok / Err
verify_proof(config, proof, eval_point, eval_value) ==
    LET params == prover_create_whir_params(config)
        domainsep == verify_proof_domainsep(config)
        verifier_state == to_verifier_state(domainsep, proof.proof_bytes)
        parsed == parse_commitment(params, verifier_state)
        statement == add_constraint(Statement_new(config.num_variables),
                                    eval_point, eval_value)
    IN  IF ~parsed.ok THEN "Err"
        ELSE IF ~verifier_verify(params, parsed.state, parsed, statement)
        THEN "Err"
        ELSE "Ok"

(***************************************************************************)
(* The staging program (programs/whir-verifier-solana).                    *)
(***************************************************************************)
\* verify dropping the verifier's verdict (no `?` on verifier.verify)
verify_unchecked(proof_data, num_variables, security_level, pow_bits, folding_factor, starting_log_inv_rate) ==
    LET params == create_whir_params(num_variables, security_level, pow_bits,
                                     folding_factor, starting_log_inv_rate)
        domainsep == add_whir_proof(
                         commit_statement(
                             DomainSeparator_new(DOMAIN_SEPARATOR), params),
                         params)
        parsed == parse_commitment(
                      params, to_verifier_state(domainsep, proof_data.proof))
    IN  IF ~parsed.ok THEN "CommitmentParseError"
        ELSE IF ~deserialize_eval_point(proof_data.eval_point).ok
        THEN "DeserializationError"
        ELSE IF ~deserialize_compressed(proof_data.eval_value).ok
        THEN "DeserializationError"
        ELSE "Ok"

\* verify decoding the evaluation claim before it parses the commitment
verify_decode_first(proof_data, num_variables, security_level, pow_bits, folding_factor, starting_log_inv_rate) ==
    LET params == create_whir_params(num_variables, security_level, pow_bits,
                                     folding_factor, starting_log_inv_rate)
        domainsep == verify_domainsep(num_variables, security_level, pow_bits,
                                      folding_factor, starting_log_inv_rate)
        verifier_state == to_verifier_state(domainsep, proof_data.proof)
        parsed == parse_commitment(params, verifier_state)
        eval_point == deserialize_eval_point(proof_data.eval_point)
        eval_value == deserialize_compressed(proof_data.eval_value)
        statement == add_constraint(Statement_new(num_variables),
                                    eval_point.val, eval_value.val)
    IN  IF ~eval_point.ok THEN "DeserializationError"
        ELSE IF ~eval_value.ok THEN "DeserializationError"
        ELSE IF ~parsed.ok THEN "CommitmentParseError"
        ELSE IF ~verifier_verify(params, parsed.state, parsed, statement)
        THEN "VerificationFailed"
        ELSE "Ok"

\* the body of the verify instruction on the account data
verify(proof_data, num_variables, security_level, pow_bits, folding_factor, starting_log_inv_rate) ==
    LET params == create_whir_params(num_variables, security_level, pow_bits,
                                     folding_factor, starting_log_inv_rate)
        domainsep == verify_domainsep(num_variables, security_level, pow_bits,
                                      folding_factor, starting_log_inv_rate)
        verifier_state == to_verifier_state(domainsep, proof_data.proof)
        parsed == parse_commitment(params, verifier_state)
        eval_point == deserialize_eval_point(proof_data.eval_point)
        eval_value == deserialize_compressed(proof_data.eval_value)
        statement == add_constraint(Statement_new(num_variables),
                                    eval_point.val, eval_value.val)
    IN  IF ~parsed.ok THEN "CommitmentParseError"
        ELSE IF ~eval_point.ok THEN "DeserializationError"
        ELSE IF ~eval_value.ok THEN "DeserializationError"
        ELSE IF ~verifier_verify(params, parsed.state, parsed, statement)
        THEN "VerificationFailed"
        ELSE "Ok"

Keys == {"alice", "bob"}
NoKey == "none"
NoConfig == ProofConfig(0, 0, 0, 0, 0)

\* an account allocated for the program and still all zero (what
\* #[account(zero)] expects)
ZeroAccount ==
    [state |-> "zero", payer |-> NoKey, proof |-> <<>>,
     eval_point |-> <<>>, eval_value |-> <<>>]

\* an account after close: reclaimed, no data, no longer owned by the program
ClosedAccount ==
    [state |-> "closed", payer |-> NoKey, proof |-> <<>>,
     eval_point |-> <<>>, eval_value |-> <<>>]

\* Account<'info, ProofData>: loading the account
load_ProofData(acct) ==
    IF acct.state = "closed" THEN "AccountNotInitialized"
    ELSE IF acct.state = "zero" THEN "AccountDiscriminatorMismatch"
    ELSE "Ok"

\* InitProof without the zero constraint
InitProof_accounts_no_zero(acct, payer, signed) ==
    IF acct.state = "closed" THEN "AccountNotInitialized"
    ELSE IF ~signed THEN "AccountNotSigner"
    ELSE "Ok"

\* #[derive(Accounts)] InitProof: proof_data #[account(zero)], payer Signer
InitProof_accounts(acct, payer, signed) ==
    IF acct.state = "closed" THEN "AccountNotInitialized"
    ELSE IF acct.state # "zero" THEN "ConstraintZero"
    ELSE IF ~signed THEN "AccountNotSigner"
    ELSE "Ok"

\* UploadChunk without the has_one constraint
UploadChunk_accounts_no_has_one(acct, payer, signed) ==
    IF load_ProofData(acct) # "Ok" THEN load_ProofData(acct)
    ELSE IF ~signed THEN "AccountNotSigner"
    ELSE "Ok"

\* #[derive(Accounts)] UploadChunk: proof_data #[account(mut, has_one = payer)],
\* payer Signer
UploadChunk_accounts(acct, payer, signed) ==
    IF load_ProofData(acct) # "Ok" THEN load_ProofData(acct)
    ELSE IF ~signed THEN "AccountNotSigner"
    ELSE IF acct.payer # payer THEN "ConstraintHasOne"
    ELSE "Ok"

\* VerifyProof demanding what UploadChunk demands: the payer's signature
VerifyProof_accounts_has_one(acct, caller, signed) ==
    IF load_ProofData(acct) # "Ok" THEN load_ProofData(acct)
    ELSE IF ~signed THEN "AccountNotSigner"
    ELSE IF acct.payer # caller THEN "ConstraintHasOne"
    ELSE "Ok"

\* #[derive(Accounts)] VerifyProof: proof_data only; the context has no payer
\* and no Signer, so who sends the transaction is not looked at
VerifyProof_accounts(acct, caller, signed) == load_ProofData(acct)

\* CloseProof with a constraint that lets only an empty buffer be closed
CloseProof_accounts_empty_only(acct, payer, signed) ==
    IF load_ProofData(acct) # "Ok" THEN load_ProofData(acct)
    ELSE IF ~signed THEN "AccountNotSigner"
    ELSE IF acct.payer # payer THEN "ConstraintHasOne"
    ELSE IF acct.proof # <<>> THEN "ConstraintRaw"
    ELSE "Ok"

\* #[derive(Accounts)] CloseProof:
\* proof_data #[account(mut, close = payer, has_one = payer)], payer Signer
CloseProof_accounts(acct, payer, signed) ==
    IF load_ProofData(acct) # "Ok" THEN load_ProofData(acct)
    ELSE IF ~signed THEN "AccountNotSigner"
    ELSE IF acct.payer # payer THEN "ConstraintHasOne"
    ELSE "Ok"

\* the body of init_proof
init_proof(acct, payer, eval_point_bytes, eval_value_bytes) ==
    [state |-> "init", payer |-> payer, proof |-> <<>>,
     eval_point |-> eval_point_bytes, eval_value |-> eval_value_bytes]

\* upload_chunk overwriting the buffer instead of extending it
upload_chunk_overwrite(acct, chunk) == [acct EXCEPT !.proof = chunk]

\* upload_chunk that also stores the chunk as the claimed value
upload_chunk_restate(acct, chunk) ==
    [acct EXCEPT !.proof = @ \o chunk, !.eval_value = chunk]

\* upload_chunk putting the chunk in front of the buffer
upload_chunk_prepend(acct, chunk) == [acct EXCEPT !.proof = chunk \o @]

\* the body of upload_chunk: proof.extend_from_slice(&chunk)
upload_chunk(acct, chunk) == [acct EXCEPT !.proof = @ \o chunk]

\* close_proof without the close = payer exit: the account stays as it is
close_proof_keep(acct) == acct

\* the body of close_proof, then the close = payer exit
close_proof(acct) == ClosedAccount

Outcome(op, slot, res) == [op |-> op, slot |-> slot, res |-> res]

\* the value range of a u8 instruction argument
u8 == 0..255


(***************************************************************************)
(* Inputs offered to the operations.                                       *)
(***************************************************************************)
NoArtifact ==
    [made |-> FALSE, config |-> NoConfig, polynomial |-> <<>>,
     eval_point |-> <<>>, proof |-> NoProof]

\* the configurations the producer generates proofs under
ProducerConfigs ==
    {TestConfig, [TestConfig EXCEPT !.num_variables = BaseNumVariables - 1],
     WideConfig}

\* values a caller may claim for a polynomial at a point: the evaluation and
\* another field element
ValueInputs(polynomial, eval_point) ==
    IF polynomial = <<>> THEN {}
    ELSE {evaluate_at_extension(polynomial, eval_point),
          F_add(evaluate_at_extension(polynomial, eval_point), F_from(1))}

PolynomialInputs(num_variables) == {create_test_polynomial(num_variables)}

\* polynomials a caller may hand to generate_pcs_proof: the test polynomial
\* for the configuration, and the one with a variable more
ProducerPolynomialInputs(num_variables) ==
    PolynomialInputs(num_variables) \cup PolynomialInputs(num_variables + 1)

\* points a caller may hand to generate_pcs_proof under a configuration: the
\* test point, under the test configuration also the point outside the base
\* field, and a point with a coordinate less than the configuration declares
ProducerPointInputs(config) ==
    (IF config = TestConfig THEN PointInputs(config.num_variables)
     ELSE {TestPoint(config.num_variables)})
    \cup {TestPoint(config.num_variables - 1)}

\* evaluation-point bytes a caller may hand to init_proof: the artifact's, the
\* artifact's followed by one more byte, the artifact's cut by one byte, and
\* the artifact's with a non-canonical first limb
EvalPointInputs ==
    LET good == artifact.proof.eval_point
    IN  {good, good \o <<MaxByte>>, SubSeq(good, 1, Len(good) - 1),
         <<MaxByte>> \o Tail(good)}

\* evaluation-value bytes a caller may hand to init_proof: the artifact's, the
\* encoding of another value, the artifact's followed by one more byte, the
\* artifact's cut by one byte, and a non-canonical encoding
EvalValueInputs ==
    LET good == artifact.proof.eval_value
        value == deserialize_compressed(good).val
    IN  {good, serialize_compressed(F_add(value, F_from(1))),
         good \o <<0>>, SubSeq(good, 1, Len(good) - 1), <<MaxByte, 0>>}

\* the (eval_point_bytes, eval_value_bytes) pairs offered to init_proof: at
\* most one of the two departs from the artifact
EvalInputs ==
    IF ~artifact.made THEN {<<<<>>, <<>>>>}
    ELSE {<<ep, artifact.proof.eval_value>> : ep \in EvalPointInputs}
         \cup {<<artifact.proof.eval_point, ev>> : ev \in EvalValueInputs}

\* chunks a caller may upload: the next bytes of the artifact's proof in
\* order, any piece of its split into MaxChunkLen-sized pieces (in any order),
\* the empty chunk, and, once the buffer holds the artifact's whole proof, the
\* proof's first unit again (a caller that starts over)
ChunkInputs(acct) ==
    LET pb == artifact.proof.proof_bytes
        off == Len(acct.proof)
    IN  {SubSeq(pb, off + 1, off + n) :
            n \in {m \in 1..MaxChunkLen : off + m <= Len(pb)}}
        \cup {SubSeq(pb, i, IF i + MaxChunkLen - 1 <= Len(pb)
                            THEN i + MaxChunkLen - 1 ELSE Len(pb)) :
                 i \in {j \in 1..Len(pb) : (j - 1) % MaxChunkLen = 0}}
        \cup {<<>>}
        \cup (IF pb # <<>> /\ off >= Len(pb)
                 /\ SubSeq(acct.proof, 1, Len(pb)) = pb
              THEN {<<pb[1]>>} ELSE {})

(***************************************************************************)
(* Actions: one per instruction of the program and per library call.       *)
(***************************************************************************)
Init ==
    /\ accounts = [s \in {"proof_data"} |-> ZeroAccount]
    /\ staged = [s \in {"proof_data"} |-> <<>>]
    /\ verified = [s \in {"proof_data"} |-> FALSE]
    /\ artifact = NoArtifact
    /\ last = Outcome("none", "none", "Ok")

\* the producer runs generate_pcs_proof once
GenerateProof(config, polynomial, eval_point) ==
    LET res == generate_pcs_proof(config, polynomial, eval_point)
    IN  /\ ~artifact.made
        /\ IF res.ok
           THEN /\ artifact' = [made |-> TRUE, config |-> config,
                                polynomial |-> polynomial,
                                eval_point |-> eval_point, proof |-> res.proof]
                /\ last' = Outcome("generate_pcs_proof", "none", "Ok")
           ELSE /\ artifact' = artifact
                /\ last' = Outcome("generate_pcs_proof", "none", "Err")
        /\ UNCHANGED <<accounts, staged, verified>>

\* verify_proof on an artifact, with the point and value the caller holds;
\* as in main, the producer verifies natively before anything is staged
LocalVerify(config, proof, eval_point, eval_value) ==
    /\ artifact.made
    /\ \A s \in DOMAIN accounts : accounts[s].state = "zero"
    /\ last' = Outcome("verify_proof", "none",
                       verify_proof(config, proof, eval_point, eval_value))
    /\ UNCHANGED <<accounts, staged, verified, artifact>>

\* instruction init_proof
InitProof(s, payer, signed, eval_point_bytes, eval_value_bytes) ==
    LET res == InitProof_accounts(accounts[s], payer, signed)
    IN  /\ last' = Outcome("init_proof", s, res)
        /\ IF res = "Ok"
           THEN /\ accounts' = [accounts EXCEPT ![s] =
                       init_proof(@, payer, eval_point_bytes, eval_value_bytes)]
                /\ staged' = [staged EXCEPT ![s] = <<>>]
           ELSE UNCHANGED <<accounts, staged>>
        /\ UNCHANGED <<verified, artifact>>

\* upload_chunk refusing a record on which a verify has succeeded, as a
\* program caching a verified flag would
UploadChunkUnlessVerified(s, payer, signed, chunk) ==
    LET res == IF UploadChunk_accounts(accounts[s], payer, signed) = "Ok"
                  /\ verified[s]
               THEN "AlreadyVerified"
               ELSE UploadChunk_accounts(accounts[s], payer, signed)
    IN  /\ Len(accounts[s].proof) + Len(chunk) <= MaxProofLen
        /\ last' = Outcome("upload_chunk", s, res)
        /\ IF res = "Ok"
           THEN /\ accounts' = [accounts EXCEPT ![s] = upload_chunk(@, chunk)]
                /\ staged' = [staged EXCEPT ![s] = @ \o chunk]
           ELSE UNCHANGED <<accounts, staged>>
        /\ UNCHANGED <<verified, artifact>>

\* upload_chunk writing through to every record of the same payer
UploadChunkShared(s, payer, signed, chunk) ==
    LET res == UploadChunk_accounts(accounts[s], payer, signed)
    IN  /\ Len(accounts[s].proof) + Len(chunk) <= MaxProofLen
        /\ last' = Outcome("upload_chunk", s, res)
        /\ IF res = "Ok"
           THEN /\ accounts' =
                     [t \in DOMAIN accounts |->
                        IF accounts[t].state = "init"
                           /\ accounts[t].payer = payer
                        THEN upload_chunk(accounts[t], chunk)
                        ELSE accounts[t]]
                /\ staged' = [staged EXCEPT ![s] = @ \o chunk]
           ELSE UNCHANGED <<accounts, staged>>
        /\ UNCHANGED <<verified, artifact>>

\* instruction upload_chunk
UploadChunk(s, payer, signed, chunk) ==
    LET res == UploadChunk_accounts(accounts[s], payer, signed)
    IN  /\ Len(accounts[s].proof) + Len(chunk) <= MaxProofLen
        /\ last' = Outcome("upload_chunk", s, res)
        /\ IF res = "Ok"
           THEN /\ accounts' = [accounts EXCEPT ![s] = upload_chunk(@, chunk)]
                /\ staged' = [staged EXCEPT ![s] = @ \o chunk]
           ELSE UNCHANGED <<accounts, staged>>
        /\ UNCHANGED <<verified, artifact>>

\* the outcome of the verify instruction on an account: account validation,
\* then the body
verify_instruction(acct, caller, signed, config) ==
    IF VerifyProof_accounts(acct, caller, signed) # "Ok"
    THEN VerifyProof_accounts(acct, caller, signed)
    ELSE verify(acct, config.num_variables, config.security_level,
                config.pow_bits, config.folding_factor,
                config.starting_log_inv_rate)

\* verify as if reading the transcript consumed the stored buffer
VerifyDraining(s, caller, signed, config) ==
    LET res == verify_instruction(accounts[s], caller, signed, config)
    IN  /\ \A f \in DOMAIN config : config[f] \in u8
        /\ last' = Outcome("verify", s, res)
        /\ verified' = [verified EXCEPT ![s] = @ \/ res = "Ok"]
        /\ accounts' = [accounts EXCEPT ![s].proof = <<>>]
        /\ UNCHANGED <<staged, artifact>>

\* instruction verify, sent by caller; its five arguments are u8 (a value
\* outside u8 has no encoding as an argument) and are widened with `as usize`
Verify(s, caller, signed, config) ==
    LET res == verify_instruction(accounts[s], caller, signed, config)
    IN  /\ \A f \in DOMAIN config : config[f] \in u8
        /\ last' = Outcome("verify", s, res)
        /\ verified' = [verified EXCEPT ![s] = @ \/ res = "Ok"]
        /\ UNCHANGED <<accounts, staged, artifact>>

\* instruction close_proof
CloseProof(s, payer, signed) ==
    LET res == CloseProof_accounts(accounts[s], payer, signed)
    IN  /\ last' = Outcome("close_proof", s, res)
        /\ IF res = "Ok"
           THEN accounts' = [accounts EXCEPT ![s] = close_proof(@)]
           ELSE UNCHANGED accounts
        /\ UNCHANGED <<staged, verified, artifact>>

\* who sends verify: one key that signs and one that does not; either may or
\* may not be the payer of the record
VerifyCallers == {<<"alice", TRUE>>, <<"bob", FALSE>>}

\* the configurations that have an encoding as arguments of verify
VerifierConfigs == {config \in ConfigInputs : \A f \in DOMAIN config : config[f] \in u8}

\* artifacts handed to verify_proof: the producer's, or the producer's with
\* its eval_value bytes replaced by the encoding of another value
ArtifactInputs ==
    IF ~artifact.made THEN {}
    ELSE {artifact.proof,
          [artifact.proof EXCEPT !.eval_value =
              serialize_compressed(
                  F_add(evaluate_at_extension(artifact.polynomial,
                                              artifact.eval_point),
                        F_from(1)))]}

Next ==
    \/ \E config \in ProducerConfigs :
         \E polynomial \in ProducerPolynomialInputs(config.num_variables) :
           \E eval_point \in ProducerPointInputs(config) :
             GenerateProof(config, polynomial, eval_point)
    \/ \E config \in ConfigInputs, proof \in ArtifactInputs :
         \E eval_point \in PointInputs(artifact.config.num_variables) :
           \E eval_value \in ValueInputs(artifact.polynomial, eval_point) :
             LocalVerify(config, proof, eval_point, eval_value)
    \/ \E s \in DOMAIN accounts, payer \in Keys, signed \in BOOLEAN :
         \E e \in EvalInputs : InitProof(s, payer, signed, e[1], e[2])
    \/ \E s \in DOMAIN accounts, payer \in Keys, signed \in BOOLEAN :
         \E chunk \in ChunkInputs(accounts[s]) :
           UploadChunk(s, payer, signed, chunk)
    \/ \E s \in DOMAIN accounts, c \in VerifyCallers :
         \E config \in ConfigInputs : Verify(s, c[1], c[2], config)
    \/ \E s \in DOMAIN accounts, payer \in Keys, signed \in BOOLEAN :
         CloseProof(s, payer, signed)

Spec == Init /\ [][Next]_vars

(***************************************************************************)
(* Two staging accounts side by side, fed by one producer.                 *)
(***************************************************************************)
Slots2 == {"proof_a", "proof_b"}

Init2 ==
    /\ accounts = [s \in Slots2 |-> ZeroAccount]
    /\ staged = [s \in Slots2 |-> <<>>]
    /\ verified = [s \in Slots2 |-> FALSE]
    /\ artifact = NoArtifact
    /\ last = Outcome("none", "none", "Ok")

\* the (eval_point_bytes, eval_value_bytes) pairs offered to init_proof: the
\* artifact's
EvalInputs2 == {<<artifact.proof.eval_point, artifact.proof.eval_value>>}

\* chunks offered to upload_chunk: the next MaxChunkLen units of the
\* artifact's proof, and its first MaxChunkLen units
ChunkInputs2(acct) ==
    LET pb == artifact.proof.proof_bytes
        off == Len(acct.proof)
        upto(n) == IF n <= Len(pb) THEN n ELSE Len(pb)
    IN  {SubSeq(pb, off + 1, upto(off + MaxChunkLen)),
         SubSeq(pb, 1, upto(MaxChunkLen))}

\* the configs offered to verify: the test configuration and one that
\* differs from it
ConfigInputs2 ==
    {TestConfig, [TestConfig EXCEPT !.pow_bits = TestConfig.pow_bits + 1]}

Next2 ==
    \/ \E polynomial \in PolynomialInputs(TestConfig.num_variables) :
         \E eval_point \in {TestPoint(TestConfig.num_variables)} :
           GenerateProof(TestConfig, polynomial, eval_point)
    \/ \E s \in DOMAIN accounts, payer \in Keys, signed \in BOOLEAN :
         \E e \in EvalInputs2 : InitProof(s, payer, signed, e[1], e[2])
    \/ \E s \in DOMAIN accounts, payer \in Keys, signed \in BOOLEAN :
         \E chunk \in ChunkInputs2(accounts[s]) :
           UploadChunk(s, payer, signed, chunk)
    \/ \E s \in DOMAIN accounts, c \in VerifyCallers :
         \E config \in ConfigInputs2 : Verify(s, c[1], c[2], config)
    \/ \E s \in DOMAIN accounts, payer \in Keys, signed \in BOOLEAN :
         CloseProof(s, payer, signed)

Spec2 == Init2 /\ [][Next2]_vars

(***************************************************************************)
(* Properties.                                                             *)
(***************************************************************************)
IsPrefix(a, b) == Len(a) <= Len(b) /\ SubSeq(b, 1, Len(a)) = a

Initialized(s) == accounts[s].state = "init"

\* the outcome of the verify instruction on slot s sent by somebody who is
\* not the payer and signs nothing
StagedVerify(s, config) ==
    verify_instruction(accounts[s], NoKey, FALSE, config)

\* the evaluation the producer's artifact claims: p(z)
ArtifactValue == evaluate_at_extension(artifact.polynomial, artifact.eval_point)

\* the record holds the producer's artifact: its proof bytes, point and value
HoldsArtifact(s) ==
    /\ artifact.made
    /\ Initialized(s)
    /\ accounts[s].proof = artifact.proof.proof_bytes
    /\ accounts[s].eval_point = artifact.proof.eval_point
    /\ accounts[s].eval_value = artifact.proof.eval_value

\* C1: on an initialized record, upload_chunk and close_proof signed by a key
\* other than the record's payer fail with ConstraintHasOne (and fail with
\* AccountNotSigner when nobody signs), for every chunk, and leave the record
\* (payer, proof, eval_point, eval_value, existence) as it was.
C1_OwnershipEnforced ==
    [][last'.op \in {"upload_chunk", "close_proof"} =>
       \A s \in DOMAIN accounts, payer \in Keys, signed \in BOOLEAN :
         (Initialized(s) /\ ~(signed /\ payer = accounts[s].payer)) =>
           /\ \A chunk \in ChunkInputs(accounts[s]) :
                UploadChunk(s, payer, signed, chunk) =>
                  /\ last'.res = (IF signed THEN "ConstraintHasOne"
                                  ELSE "AccountNotSigner")
                  /\ accounts' = accounts
           /\ CloseProof(s, payer, signed) =>
                  /\ last'.res = (IF signed THEN "ConstraintHasOne"
                                  ELSE "AccountNotSigner")
                  /\ accounts' = accounts]_vars

C1_Witness ==
    \E s \in DOMAIN accounts :
        /\ Initialized(s)
        /\ accounts[s].proof # <<>>
        /\ last = Outcome("upload_chunk", s, "ConstraintHasOne")

\* C2: while a record is initialized its proof equals the concatenation, in
\* order of arrival, of the chunks of the successful upload_chunk calls; a
\* successful upload_chunk(chunk) turns proof into old proof \o chunk, and no
\* step between init and close leaves a proof that does not extend the old one.
C2_AppendOnly ==
    /\ [](\A s \in DOMAIN accounts :
             Initialized(s) => accounts[s].proof = staged[s])
    /\ [][\A s \in DOMAIN accounts :
             /\ (Initialized(s) /\ accounts'[s].state = "init") =>
                    IsPrefix(accounts[s].proof, accounts'[s].proof)
             /\ \A payer \in Keys, chunk \in ChunkInputs(accounts[s]) :
                    (UploadChunk(s, payer, TRUE, chunk) /\ last'.res = "Ok") =>
                        accounts'[s].proof = accounts[s].proof \o chunk]_vars

C2_Witness ==
    \E s \in DOMAIN accounts :
        /\ Initialized(s)
        /\ Len(accounts[s].proof) > MaxChunkLen
        /\ last = Outcome("upload_chunk", s, "Ok")

\* C3: init_proof succeeds only on a zeroed account, and then sets payer to
\* the signer, proof to empty and eval_point / eval_value to the bytes given;
\* on an initialized account it fails with ConstraintZero and leaves payer,
\* proof, eval_point and eval_value unchanged.
C3_InitOnce ==
    [][last'.op = "init_proof" =>
       IF Initialized(last'.slot)
       THEN /\ last'.res = "ConstraintZero"
            /\ accounts' = accounts
       ELSE \A s \in DOMAIN accounts, payer \in Keys, signed \in BOOLEAN :
              \A e \in EvalInputs :
                InitProof(s, payer, signed, e[1], e[2]) =>
                  /\ last'.res = "Ok" => accounts[s].state = "zero"
                  /\ (accounts[s].state = "zero" /\ signed) =>
                        /\ last'.res = "Ok"
                        /\ accounts'[s] = [state |-> "init", payer |-> payer,
                                           proof |-> <<>>, eval_point |-> e[1],
                                           eval_value |-> e[2]]]_vars

C3_Witness ==
    \E s \in DOMAIN accounts :
        /\ Initialized(s)
        /\ accounts[s].proof # <<>>
        /\ last = Outcome("init_proof", s, "ConstraintZero")

\* C4: verify, whatever its outcome, leaves every record as it was, and the
\* same verify on the record it leaves behind has the same outcome.
C4_VerifyReadOnly ==
    [][last'.op = "verify" =>
         /\ accounts' = accounts
         /\ \E c \in VerifyCallers, config \in VerifierConfigs :
               /\ Verify(last'.slot, c[1], c[2], config)
               /\ verify_instruction(accounts'[last'.slot], c[1], c[2], config)
                     = last'.res]_vars

C4_Witness ==
    \E s \in DOMAIN accounts :
        /\ Initialized(s)
        /\ accounts[s].proof # <<>>
        /\ last = Outcome("verify", s, "Ok")

\* C5: close_proof signed by the payer reclaims an initialized record; on a
\* reclaimed record upload_chunk, verify and close_proof all fail, and the
\* record stays reclaimed, so close succeeds at most once.
C5_CloseReclaims ==
    [][\A s \in DOMAIN accounts :
         /\ (Initialized(s) /\ CloseProof(s, accounts[s].payer, TRUE)) =>
               /\ last'.res = "Ok"
               /\ accounts'[s].state = "closed"
         /\ accounts[s].state = "closed" =>
               /\ accounts'[s].state = "closed"
               /\ \A payer \in Keys, signed \in BOOLEAN :
                    /\ CloseProof(s, payer, signed) =>
                          last'.res = "AccountNotInitialized"
                    /\ \A chunk \in ChunkInputs(accounts[s]) :
                          UploadChunk(s, payer, signed, chunk) =>
                              last'.res = "AccountNotInitialized"
               /\ \A caller \in Keys, signed \in BOOLEAN :
                    \A config \in ConfigInputs :
                      Verify(s, caller, signed, config) =>
                          last'.res = "AccountNotInitialized"]_vars

C5_Witness ==
    \E s \in DOMAIN accounts :
        /\ accounts[s].state = "closed"
        /\ last = Outcome("close_proof", s, "AccountNotInitialized")

\* C6 (as claimed): deserialize_eval_point fails for every byte sequence whose
\* length is not a multiple of field_size_bytes, so verify never succeeds on a
\* record with such an eval_point; a record holding the artifact's point
\* decodes to the producer's coordinates in order.
C6_PartialPointRejected ==
    \A s \in DOMAIN accounts :
        /\ (Initialized(s)
            /\ Len(accounts[s].eval_point) % field_size_bytes # 0) =>
              /\ ~deserialize_eval_point(accounts[s].eval_point).ok
              /\ last.op = "verify" /\ last.slot = s => last.res # "Ok"
        /\ HoldsArtifact(s) =>
              deserialize_eval_point(accounts[s].eval_point).val
                  = artifact.eval_point

\* C7 (as claimed): decoding a field element fails whenever the byte length
\* is not exactly field_size_bytes, and verify fails with DeserializationError
\* on a record whose eval_value is not exactly field_size_bytes long.
C7_ValueLengthExact ==
    \A s \in DOMAIN accounts :
        (Initialized(s) /\ Len(accounts[s].eval_value) # field_size_bytes) =>
            /\ ~deserialize_compressed(accounts[s].eval_value).ok
            /\ last.op = "verify" /\ last.slot = s =>
                   last.res = "DeserializationError"

HoldsWrongValue(s) ==
    /\ artifact.made
    /\ Initialized(s)
    /\ accounts[s].proof = artifact.proof.proof_bytes
    /\ accounts[s].eval_point = artifact.proof.eval_point
    /\ deserialize_compressed(accounts[s].eval_value).ok
    /\ deserialize_compressed(accounts[s].eval_value).val # ArtifactValue

\* C9 (as claimed): with the artifact's eval_value bytes replaced by the
\* encoding of a value other than p(z), neither verify_proof on that artifact
\* nor the staged verify on a record holding it succeeds.
C9_ArtifactValueChecked ==
    [][/\ last'.op = "verify_proof" =>
            \A config \in ConfigInputs, proof \in ArtifactInputs :
              \A eval_point \in PointInputs(artifact.config.num_variables) :
                \A eval_value \in ValueInputs(artifact.polynomial, eval_point) :
                  (/\ LocalVerify(config, proof, eval_point, eval_value)
                   /\ proof.eval_value # serialize_compressed(ArtifactValue)) =>
                      last'.res # "Ok"
       /\ last'.op = "verify" =>
            \A s \in DOMAIN accounts :
              HoldsWrongValue(s) =>
                \A caller \in Keys, signed \in BOOLEAN :
                  \A config \in ConfigInputs :
                    Verify(s, caller, signed, config) => last'.res # "Ok"]_vars

\* C9 (amended): the staged verify checks the claim the record carries: on a
\* record holding the artifact's proof and point and the encoding of a value
\* other than p(z) it never succeeds, and under the producer's config it
\* fails with VerificationFailed.  verify_proof checks the point and value
\* its caller passes and does not read the artifact's eval_point / eval_value
\* bytes: its outcome is the one for the untouched artifact, and it fails
\* whenever the value passed is not the polynomial's value at the point passed.
C9_ClaimChecked ==
    [][/\ last'.op = "verify_proof" =>
            \A config \in ConfigInputs, proof \in ArtifactInputs :
              \A eval_point \in PointInputs(artifact.config.num_variables) :
                \A eval_value \in ValueInputs(artifact.polynomial, eval_point) :
                  LocalVerify(config, proof, eval_point, eval_value) =>
                    /\ last'.res = verify_proof(config, artifact.proof,
                                                eval_point, eval_value)
                    /\ eval_value # evaluate_at_extension(artifact.polynomial,
                                                          eval_point)
                         => last'.res = "Err"
       /\ last'.op = "verify" =>
            \A s \in DOMAIN accounts :
              HoldsWrongValue(s) =>
                \A caller \in Keys, signed \in BOOLEAN :
                  \A config \in ConfigInputs :
                    Verify(s, caller, signed, config) =>
                        /\ last'.res # "Ok"
                        /\ config = artifact.config =>
                               last'.res = "VerificationFailed"]_vars

C9_Witness ==
    \E s \in DOMAIN accounts :
        /\ HoldsWrongValue(s)
        /\ last = Outcome("verify", s, "VerificationFailed")
        /\ StagedVerify(s, artifact.config) = "VerificationFailed"

\* C10: under a config that differs from the producer's in one of the five
\* fields, verify_proof on the artifact fails and the staged verify on a
\* record holding the artifact fails with CommitmentParseError or
\* VerificationFailed; no staged record verifies under such a config.
C10_ConfigMismatchFails ==
    artifact.made =>
        \A config \in ConfigInputs \ {artifact.config} :
            /\ verify_proof(config, artifact.proof, artifact.eval_point,
                            ArtifactValue) = "Err"
            /\ \A s \in DOMAIN accounts :
                 /\ HoldsArtifact(s) =>
                      StagedVerify(s, config)
                          \in {"CommitmentParseError", "VerificationFailed"}
                 /\ StagedVerify(s, config) # "Ok"

C10_Witness ==
    \E s \in DOMAIN accounts :
        /\ HoldsArtifact(s)
        /\ last.op = "verify" /\ last.slot = s
        /\ last.res \in {"CommitmentParseError", "VerificationFailed"}
        /\ \E config \in ConfigInputs \ {artifact.config} :
               StagedVerify(s, config) = last.res

\* C11: verify needs no ownership: on every initialized record the account
\* validation of verify passes for every sender, signed or not, payer or not,
\* and the outcome under a config is the same for every sender; the outcome
\* of a verify step that acted on the record is that common outcome.
C11_VerifyOpenToAll ==
    \A s \in DOMAIN accounts :
        Initialized(s) =>
            /\ \A caller \in Keys, signed \in BOOLEAN :
                  /\ VerifyProof_accounts(accounts[s], caller, signed) = "Ok"
                  /\ \A config \in ConfigInputs :
                        verify_instruction(accounts[s], caller, signed, config)
                            = StagedVerify(s, config)
            /\ (last.op = "verify" /\ last.slot = s) =>
                  \E config \in ConfigInputs :
                      last.res = StagedVerify(s, config)

C11_Witness ==
    \E s \in DOMAIN accounts :
        /\ HoldsArtifact(s)
        /\ accounts[s].payer # "bob"
        /\ last = Outcome("verify", s, "Ok")
        /\ verify_instruction(accounts[s], "bob", FALSE, artifact.config) = "Ok"
        /\ verify_instruction(accounts[s], "bob", TRUE, artifact.config) = "Ok"
        /\ CloseProof_accounts(accounts[s], "bob", TRUE) = "ConstraintHasOne"

\* a is b with its units in another order: what appending the chunks of b,
\* however b was split, in another order than they were cut leaves behind
Scrambled(a, b) ==
    /\ a # b
    /\ Len(a) = Len(b)
    /\ \E pi \in Permutations(1..Len(b)) : a = [i \in 1..Len(b) |-> b[pi[i]]]

\* the record was initialized with the artifact's point and value and the
\* chunks it accepted are the artifact's proof in a scrambled order
HoldsScrambled(s) ==
    /\ artifact.made
    /\ Initialized(s)
    /\ accounts[s].eval_point = artifact.proof.eval_point
    /\ accounts[s].eval_value = artifact.proof.eval_value
    /\ Scrambled(staged[s], artifact.proof.proof_bytes)

\* C12: when the chunks of the artifact's proof were appended in an order
\* whose concatenation differs from proof_bytes, the record's proof is that
\* concatenation, so it differs from proof_bytes, and verify on the record
\* fails with CommitmentParseError or VerificationFailed under every config.
C12_ScrambledFails ==
    \A s \in DOMAIN accounts :
        HoldsScrambled(s) =>
            /\ accounts[s].proof = staged[s]
            /\ accounts[s].proof # artifact.proof.proof_bytes
            /\ \A config \in VerifierConfigs :
                  StagedVerify(s, config)
                      \in {"CommitmentParseError", "VerificationFailed"}
            /\ (last.op = "verify" /\ last.slot = s) =>
                  last.res \in {"CommitmentParseError", "VerificationFailed"}

C12_Witness ==
    \E s \in DOMAIN accounts :
        /\ HoldsScrambled(s)
        /\ last.op = "verify" /\ last.slot = s
        /\ last.res \in {"CommitmentParseError", "VerificationFailed"}
        /\ StagedVerify(s, artifact.config) = last.res

\* the domain separator of a configuration: the label, then "bind statement /
\* commitment shape", then "bind proof shape", both over the parameters built
\* from the five values
ExpectedDomainSeparator(config) ==
    <<DOMAIN_SEPARATOR,
      <<"commit_statement",
        create_whir_params(config.num_variables, config.security_level,
                           config.pow_bits, config.folding_factor,
                           config.starting_log_inv_rate)>>,
      <<"whir_proof",
        create_whir_params(config.num_variables, config.security_level,
                           config.pow_bits, config.folding_factor,
                           config.starting_log_inv_rate)>> >>

\* C13: for identical config values generate_pcs_proof, verify_proof and the
\* verify instruction derive the same parameters and the same domain
\* separator: the fixed label with commit_statement and then add_whir_proof
\* applied, in that order; the proof body of the artifact answers the
\* challenges of the separator the verify instruction derives.
C13_SameDomainSeparator ==
    /\ \A config \in ConfigInputs :
          /\ generate_domainsep(config) = ExpectedDomainSeparator(config)
          /\ verify_proof_domainsep(config) = generate_domainsep(config)
          /\ config \in VerifierConfigs =>
                verify_domainsep(config.num_variables, config.security_level,
                                 config.pow_bits, config.folding_factor,
                                 config.starting_log_inv_rate)
                    = generate_domainsep(config)
    /\ (artifact.made /\ artifact.config \in VerifierConfigs) =>
          LET config == artifact.config
              need == ChallengeUnits(
                          verify_domainsep(
                              config.num_variables, config.security_level,
                              config.pow_bits, config.folding_factor,
                              config.starting_log_inv_rate))
          IN  SubSeq(artifact.proof.proof_bytes, 2, 1 + Len(need)) = need

C13_Witness ==
    \E s \in DOMAIN accounts :
        /\ HoldsArtifact(s)
        /\ last = Outcome("verify", s, "Ok")
        /\ artifact.config # TestConfig
        /\ verify_domainsep(artifact.config.num_variables,
                            artifact.config.security_level,
                            artifact.config.pow_bits,
                            artifact.config.folding_factor,
                            artifact.config.starting_log_inv_rate)
             = generate_domainsep(artifact.config)

ProofParses(s, config) ==
    parse_commitment(
        create_whir_params(config.num_variables, config.security_level,
                           config.pow_bits, config.folding_factor,
                           config.starting_log_inv_rate),
        to_verifier_state(
            verify_domainsep(config.num_variables, config.security_level,
                             config.pow_bits, config.folding_factor,
                             config.starting_log_inv_rate),
            accounts[s].proof)).ok

\* the record's eval_point and eval_value both decode
ClaimDecodes(s) ==
    /\ deserialize_eval_point(accounts[s].eval_point).ok
    /\ deserialize_compressed(accounts[s].eval_value).ok

\* the cryptographic check accepts the record's proof for the record's claim
CheckAccepts(s, config) ==
    LET params == create_whir_params(
                      config.num_variables, config.security_level,
                      config.pow_bits, config.folding_factor,
                      config.starting_log_inv_rate)
        parsed == parse_commitment(
                      params,
                      to_verifier_state(
                          verify_domainsep(
                              config.num_variables, config.security_level,
                              config.pow_bits, config.folding_factor,
                              config.starting_log_inv_rate),
                          accounts[s].proof))
    IN  verifier_verify(
            params, parsed.state, parsed,
            add_constraint(Statement_new(config.num_variables),
                           deserialize_eval_point(accounts[s].eval_point).val,
                           deserialize_compressed(accounts[s].eval_value).val))

\* C15: on an initialized record verify ends in exactly one of four outcomes,
\* decided in this order: CommitmentParseError iff the proof does not parse;
\* else DeserializationError iff eval_point or eval_value does not decode;
\* else VerificationFailed iff the check rejects; else Ok.  A record whose
\* proof does not parse and whose claim does not decode gets
\* CommitmentParseError.
C15_OutcomeOrder ==
    \A s \in DOMAIN accounts :
        Initialized(s) =>
            /\ \A config \in VerifierConfigs :
                  StagedVerify(s, config) =
                      (IF ~ProofParses(s, config) THEN "CommitmentParseError"
                       ELSE IF ~ClaimDecodes(s) THEN "DeserializationError"
                       ELSE IF ~CheckAccepts(s, config)
                            THEN "VerificationFailed"
                       ELSE "Ok")
            /\ (last.op = "verify" /\ last.slot = s) =>
                  last.res \in {"CommitmentParseError", "DeserializationError",
                                "VerificationFailed", "Ok"}

C15_Witness ==
    \E s \in DOMAIN accounts :
        /\ Initialized(s)
        /\ artifact.made
        /\ ~ProofParses(s, artifact.config)
        /\ ~ClaimDecodes(s)
        /\ last = Outcome("verify", s, "CommitmentParseError")

\* what one call of the named instruction can make of a record that stands
\* alone: the pairs (record after the call, outcome), over all inputs
AloneSuccessors(acct, op) ==
    IF op = "init_proof"
    THEN {<<IF InitProof_accounts(acct, payer, signed) = "Ok"
            THEN init_proof(acct, payer, e[1], e[2]) ELSE acct,
            InitProof_accounts(acct, payer, signed)>> :
             payer \in Keys, signed \in BOOLEAN, e \in EvalInputs2}
    ELSE IF op = "upload_chunk"
    THEN {<<IF UploadChunk_accounts(acct, x[1], x[2]) = "Ok"
            THEN upload_chunk(acct, x[3]) ELSE acct,
            UploadChunk_accounts(acct, x[1], x[2])>> :
             x \in Keys \X BOOLEAN \X ChunkInputs2(acct)}
    ELSE IF op = "verify"
    THEN {<<acct, verify_instruction(acct, c[1], c[2], config)>> :
             c \in VerifyCallers, config \in ConfigInputs2}
    ELSE IF op = "close_proof"
    THEN {<<IF CloseProof_accounts(acct, payer, signed) = "Ok"
            THEN close_proof(acct) ELSE acct,
            CloseProof_accounts(acct, payer, signed)>> :
             payer \in Keys, signed \in BOOLEAN}
    ELSE {}

\* C16: a call on one record leaves every field of every other record (and
\* what they accepted so far) unchanged, whatever the other records hold,
\* and turns its own record into what the same call makes of that record
\* standing alone, with the same outcome; generating a proof touches no
\* record.  So under every interleaving each record ends as its own calls,
\* run in their order, leave it.
C16_RecordsIndependent ==
    [][/\ last'.slot = "none" => accounts' = accounts
       /\ \A s \in DOMAIN accounts :
            last'.slot = s =>
              /\ \A t \in DOMAIN accounts \ {s} :
                    /\ accounts'[t] = accounts[t]
                    /\ staged'[t] = staged[t]
                    /\ verified'[t] = verified[t]
              /\ <<accounts'[s], last'.res>>
                    \in AloneSuccessors(accounts[s], last'.op)]_vars

C16_Witness ==
    /\ HoldsArtifact("proof_a")
    /\ verified["proof_a"]
    /\ accounts["proof_b"].state = "init"
    /\ accounts["proof_b"].payer # accounts["proof_a"].payer
    /\ accounts["proof_b"].proof # <<>>
    /\ accounts["proof_b"].proof # accounts["proof_a"].proof
    /\ last = Outcome("upload_chunk", "proof_b", "Ok")

\* C17: in every reachable state of an initialized record, whatever was
\* appended and whether or not a verify passed or failed on it, close_proof
\* signed by the payer passes account validation and is enabled with the
\* outcome Ok and the record reclaimed.
C17_CloseAlwaysAvailable ==
    \A s \in DOMAIN accounts :
        Initialized(s) =>
            /\ CloseProof_accounts(accounts[s], accounts[s].payer, TRUE) = "Ok"
            /\ ENABLED (/\ CloseProof(s, accounts[s].payer, TRUE)
                        /\ last'.res = "Ok"
                        /\ accounts'[s].state = "closed")

C17_Witness ==
    \E s \in DOMAIN accounts :
        /\ accounts[s].state = "closed"
        /\ last = Outcome("close_proof", s, "Ok")
        /\ artifact.made
        /\ staged[s] # <<>>
        /\ Len(staged[s]) < Len(artifact.proof.proof_bytes)
        /\ IsPrefix(staged[s], artifact.proof.proof_bytes)

\* a config with every field reduced modulo 256
Truncated(config) == [f \in DOMAIN config |-> config[f] % 256]

\* a field of the config has no 8-bit encoding
OutOfRange(config) == \E f \in DOMAIN config : config[f] \notin u8

\* C18: a config with a field above 255 cannot be passed to verify (no step
\* of verify takes it), and an artifact generated under such a config is
\* never verified under the values reduced modulo 256, nor under any config
\* verify can take: on a record holding the artifact verify under the reduced
\* config fails with CommitmentParseError or VerificationFailed.  A config
\* within range is used as it is: the parameters verify builds from it are
\* the producer's.
C18_NoSilentTruncation ==
    /\ \A config \in ConfigInputs :
          /\ OutOfRange(config) =>
                \A s \in DOMAIN accounts, c \in VerifyCallers :
                    ~ENABLED Verify(s, c[1], c[2], config)
          /\ ~OutOfRange(config) =>
                create_whir_params(config.num_variables, config.security_level,
                                   config.pow_bits, config.folding_factor,
                                   config.starting_log_inv_rate).security_level
                    = config.security_level
    /\ (artifact.made /\ OutOfRange(artifact.config)) =>
          \A s \in DOMAIN accounts :
              /\ \A config \in VerifierConfigs : StagedVerify(s, config) # "Ok"
              /\ ~verified[s]
              /\ HoldsArtifact(s) =>
                    StagedVerify(s, Truncated(artifact.config))
                        \in {"CommitmentParseError", "VerificationFailed"}

C18_Witness ==
    \E s \in DOMAIN accounts :
        /\ HoldsArtifact(s)
        /\ OutOfRange(artifact.config)
        /\ Truncated(artifact.config) \in VerifierConfigs
        /\ last = Outcome("verify", s, "VerificationFailed")
        /\ StagedVerify(s, Truncated(artifact.config)) = "VerificationFailed"

\* C19: from init_proof until close the payer, eval_point and eval_value of a
\* record stay what init_proof stored: every step that leaves the record
\* initialized leaves the three unchanged, so upload_chunk changes only proof
\* and no call transfers ownership or rewrites the evaluation claim.
C19_ClaimAndOwnerFixed ==
    [][\A s \in DOMAIN accounts :
         (Initialized(s) /\ accounts'[s].state = "init") =>
            /\ accounts'[s].payer = accounts[s].payer
            /\ accounts'[s].eval_point = accounts[s].eval_point
            /\ accounts'[s].eval_value = accounts[s].eval_value
            /\ (last'.op # "upload_chunk" \/ last'.res # "Ok") =>
                  accounts'[s] = accounts[s]]_vars

C19_Witness ==
    \E s \in DOMAIN accounts :
        /\ HoldsArtifact(s)
        /\ accounts[s].payer = "alice"
        /\ last = Outcome("close_proof", s, "ConstraintHasOne")

====
